---- MODULE Spec2Model ----
(***************************************************************************)
(* Model of the habit tracker in src/app.py.                               *)
(*                                                                         *)
(* The program is a Streamlit script: every user interaction re-runs the   *)
(* whole script against the session state (st.session_state.habits and     *)
(* st.session_state.habit_data) and the file habit_data.json.  One action  *)
(* of the model is one run of the script for one interaction: the load at  *)
(* the top of the script, the handler of the widget that was used, and the *)
(* save the handler ends with.                                             *)
(*                                                                         *)
(* A habit name is a sequence of one-character strings, so that the empty  *)
(* name and a name of blanks are different values.  A date key is the      *)
(* string strftime produces for a day; the model keeps the day-of-month    *)
(* part, the days being days of the month the calendar shows.              *)
(*                                                                         *)
(* Specifications: Spec runs several habits on one date from an empty      *)
(* store; SpecHabit runs one habit on several dates; SpecLoad starts on a  *)
(* file left by an earlier process (missing, unparseable, with one of the  *)
(* two fields, or complete); SpecStreak logs the streak after each of the  *)
(* check-ins of one habit; SpecCal builds the calendar grid for every      *)
(* first weekday, month length and history.                                *)
(***************************************************************************)
EXTENDS Integers, Sequences, FiniteSets, TLC

VARIABLES habits, habit_data, file, started, warning, lastOp, month, calendar_data,
          streak_log

vars == <<habits, habit_data, file, started, warning, lastOp, month, calendar_data,
          streak_log>>

(* ---- bounds ---- *)
MaxNames == 2
MaxDates == 3
MaxLog == 4

(* ---- inputs ---- *)
NamePool == << <<"a">>, <<" ">>, <<"b">>, <<" ", " ">> >>

EmptyName == << >>

Names == {NamePool[i] : i \in 1..MaxNames}

CategoryOptions == <<"Health", "Productivity", "Personal Growth", "Other">>

GoalOptions == <<"Daily", "Weekly", "Monthly">>

(* the selections of the two select boxes that the runs try *)
Selections == {<<CategoryOptions[1], GoalOptions[1]>>, <<CategoryOptions[4], GoalOptions[2]>>}

OneName == {NamePool[1]}

DayKeys == <<"01", "02", "03", "04", "05", "06", "07", "08", "09", "10",
             "11", "12", "13", "14", "15", "16", "17", "18", "19", "20",
             "21", "22", "23", "24", "25", "26", "27", "28", "29", "30", "31">>

DateStr(day) == DayKeys[day]

Dates == {DateStr(i) : i \in 1..MaxDates}

OneDate == {DateStr(1)}

(* ---- dictionaries ---- *)
EmptyDict == [k \in {} |-> FALSE]

DictSet(d, k, v) == [x \in (DOMAIN d) \cup {k} |-> IF x = k THEN v ELSE d[x]]

DictDel(d, k) == [x \in (DOMAIN d) \ {k} |-> d[x]]

DictGet(d, k, default) == IF k \in DOMAIN d THEN d[k] ELSE default

InList(x, s) == \E i \in 1..Len(s) : s[i] = x

IndexOf(x, s) == CHOOSE i \in 1..Len(s) : s[i] = x /\ \A j \in 1..(i - 1) : s[j] # x

ListRemove(s, x) ==
  LET i == IndexOf(x, s)
  IN  [j \in 1..(Len(s) - 1) |-> IF j < i THEN s[j] ELSE s[j + 1]]

Truthy(s) == Len(s) > 0

IsBlank(s) == \A i \in 1..Len(s) : s[i] = " "

(* ---- persistence ---- *)
NoFile == [exists |-> FALSE, parses |-> FALSE, has_habits |-> FALSE,
           has_habit_data |-> FALSE, habits |-> << >>, habit_data |-> {}]

DumpHistory(history) == {<<d, history[d]>> : d \in DOMAIN history}

DumpHabitShallow(info) ==
  [category |-> info.category, goal |-> info.goal, streak |-> info.streak,
   history |-> {}]

DumpHabit(info) ==
  [category |-> info.category, goal |-> info.goal, streak |-> info.streak,
   history |-> DumpHistory(info.history)]

DumpHabitData(hd) == {<<n, DumpHabit(hd[n])>> : n \in DOMAIN hd}

save_data(hs, hd) ==
  [exists |-> TRUE, parses |-> TRUE, has_habits |-> TRUE, has_habit_data |-> TRUE,
   habits |-> hs, habit_data |-> DumpHabitData(hd)]

ParseObject(pairs) ==
  [k \in {p[1] : p \in pairs} |-> (CHOOSE p \in pairs : p[1] = k)[2]]

ParseHabit(obj) ==
  [category |-> obj.category, goal |-> obj.goal, streak |-> obj.streak,
   history |-> ParseObject(obj.history)]

ParseHabitData(pairs) ==
  LET objs == ParseObject(pairs)
  IN  [n \in DOMAIN objs |-> ParseHabit(objs[n])]

load_data(f, hs, hd) ==
  IF ~f.exists THEN [habits |-> hs, habit_data |-> hd, raised |-> FALSE]
  ELSE IF ~f.parses \/ ~f.has_habits THEN [habits |-> hs, habit_data |-> hd, raised |-> TRUE]
  ELSE IF ~f.has_habit_data THEN [habits |-> f.habits, habit_data |-> hd, raised |-> TRUE]
  ELSE [habits |-> f.habits, habit_data |-> ParseHabitData(f.habit_data), raised |-> FALSE]

(* ---- the record of the last interaction ---- *)
NoDate == "--"

Op(op, name, date, completed, category, goal, prior, result) ==
  [op |-> op, name |-> name, date |-> date, completed |-> completed,
   category |-> category, goal |-> goal, prior |-> prior, result |-> result,
   repeat_of |-> "no"]

(* the status the preceding interaction found for the date, when that
   interaction was the same check-in (habit, date and checkbox value) *)
RepeatOf(last, habit, date_str, completed) ==
  IF /\ last.op = "checkin"
     /\ last.result # "raised"
     /\ last.name = habit
     /\ last.date = date_str
     /\ last.completed = completed
  THEN last.prior ELSE "no"

NoOp == Op("init", EmptyName, NoDate, FALSE, "", "", "none", "none")

(* ---- habit store ---- *)
NewHabitStreakOne(category, goal) ==
  [category |-> category, goal |-> goal, streak |-> 1, history |-> EmptyDict]

NewHabit(category, goal) ==
  [category |-> category, goal |-> goal, streak |-> 0, history |-> EmptyDict]

CanAddAnyName(new_habit, hs) == Truthy(new_habit)

CanAdd(new_habit, hs) == Truthy(new_habit) /\ ~InList(new_habit, hs)

HabitCompleted(info, date_str) == DictGet(info.history, date_str, FALSE)

CheckboxAlways(completed, habit_completed) == TRUE

CheckboxChanged(completed, habit_completed) == completed # habit_completed

UpdateStreakSetOne(streak, completed) == IF completed THEN 1 ELSE 0

UpdateStreakNoReset(streak, completed) == IF completed THEN streak + 1 ELSE streak

UpdateStreak(streak, completed) == IF completed THEN streak + 1 ELSE 0

RecordCheckinStreakOnly(info, date_str, completed) ==
  [info EXCEPT !.streak = UpdateStreak(info.streak, completed)]

RecordCheckin(info, date_str, completed) ==
  [info EXCEPT !.history = DictSet(info.history, date_str, completed),
               !.streak = UpdateStreak(info.streak, completed)]

Prior(info, date_str) ==
  IF date_str \notin DOMAIN info.history THEN "none"
  ELSE IF info.history[date_str] THEN "true" ELSE "false"

(* the check-in loop reads habit_data[habit] for each habit in list order *)
LoopRaisesBefore(hs, hd, last) == \E j \in 1..last : hs[j] \notin DOMAIN hd

(* ---- calendar view ---- *)
Weekdays == 0..6

MonthLengths == 28..31

NoMonth == [first_weekday |-> 0, num_days |-> 0]

EmptyCell == [day |-> 0, completed |-> FALSE]

DayCell(day, completed) == [day |-> day, completed |-> completed]

DayCompleted(selected_habit, hd, day) ==
  IF selected_habit \in DOMAIN hd
  THEN DictGet(hd[selected_habit].history, DateStr(day), FALSE)
  ELSE FALSE

PadBeforeSundayFirst(first_weekday) ==
  [i \in 1..((first_weekday + 1) % 7) |-> EmptyCell]

PadBefore(first_weekday) == [i \in 1..first_weekday |-> EmptyCell]

WeekFull(week) == Len(week) = 7

RECURSIVE FillDays(_, _, _, _, _, _)
FillDays(day, num_days, week, weeks, selected_habit, hd) ==
  IF day > num_days THEN [weeks |-> weeks, week |-> week]
  ELSE LET w == Append(week, DayCell(day, DayCompleted(selected_habit, hd, day)))
       IN  IF WeekFull(w)
           THEN FillDays(day + 1, num_days, << >>, Append(weeks, w), selected_habit, hd)
           ELSE FillDays(day + 1, num_days, w, weeks, selected_habit, hd)

PadAfter(week) == week \o [i \in 1..(7 - Len(week)) |-> EmptyCell]

CalendarGrid(selected_habit, hd, first_weekday, num_days) ==
  LET r == FillDays(1, num_days, PadBefore(first_weekday), << >>, selected_habit, hd)
  IN  IF r.week # << >> THEN Append(r.weeks, PadAfter(r.week)) ELSE r.weeks

(* ---- initial states ---- *)
InitSession ==
  /\ habits = << >>
  /\ habit_data = EmptyDict
  /\ started = FALSE
  /\ warning = FALSE
  /\ lastOp = NoOp
  /\ month = NoMonth
  /\ calendar_data = << >>
  /\ streak_log = << >>

Init == InitSession /\ file = NoFile

(* ---- one run of the script per interaction ---- *)
Startup ==
  LET L == load_data(file, << >>, EmptyDict)
  IN  /\ habits' = L.habits
      /\ habit_data' = L.habit_data
      /\ warning' = L.raised
      /\ started' = TRUE
      /\ lastOp' = Op("startup", EmptyName, NoDate, FALSE, "", "", "none",
                      IF L.raised THEN "warning" ELSE "ok")
      /\ UNCHANGED <<file, month, calendar_data, streak_log>>

AddHabit(new_habit, category, goal) ==
  LET L == load_data(file, habits, habit_data)
  IN  /\ started
      /\ warning' = L.raised
      /\ IF CanAdd(new_habit, L.habits)
         THEN /\ habits' = Append(L.habits, new_habit)
              /\ habit_data' = DictSet(L.habit_data, new_habit, NewHabit(category, goal))
              /\ file' = save_data(habits', habit_data')
              /\ lastOp' = Op("add", new_habit, NoDate, FALSE, category, goal, "none", "added")
         ELSE /\ habits' = L.habits
              /\ habit_data' = L.habit_data
              /\ file' = file
              /\ lastOp' = Op("add", new_habit, NoDate, FALSE, category, goal, "none",
                              IF InList(new_habit, L.habits) THEN "exists" ELSE "empty")
      /\ UNCHANGED <<started, month, calendar_data>>

RemoveHabit(habit_to_remove) ==
  LET L == load_data(file, habits, habit_data)
      hs == ListRemove(L.habits, habit_to_remove)
      hd == DictDel(L.habit_data, habit_to_remove)
      saved == save_data(hs, hd)
      R == load_data(saved, hs, hd)
  IN  /\ started
      /\ InList(habit_to_remove, L.habits)
      /\ file' = saved
      /\ habits' = R.habits
      /\ habit_data' = R.habit_data
      /\ warning' = R.raised
      /\ lastOp' = Op("remove", habit_to_remove, NoDate, FALSE, "", "", "none", "removed")
      /\ UNCHANGED <<started, month, calendar_data, streak_log>>

CheckIn(habit, date_str, completed) ==
  LET L == load_data(file, habits, habit_data)
  IN  /\ started
      /\ InList(habit, L.habits)
      /\ warning' = L.raised
      /\ habits' = L.habits
      /\ IF LoopRaisesBefore(L.habits, L.habit_data, IndexOf(habit, L.habits))
         THEN /\ habit_data' = L.habit_data
              /\ file' = file
              /\ lastOp' = Op("checkin", habit, date_str, completed, "", "", "none", "raised")
         ELSE LET info == L.habit_data[habit]
                  habit_completed == HabitCompleted(info, date_str)
              IN  IF CheckboxChanged(completed, habit_completed)
                  THEN /\ habit_data' = [L.habit_data EXCEPT
                                           ![habit] = RecordCheckin(info, date_str, completed)]
                       /\ file' = save_data(habits', habit_data')
                       /\ lastOp' = [Op("checkin", habit, date_str, completed, "", "",
                                         Prior(info, date_str), "updated")
                                      EXCEPT !.repeat_of =
                                        RepeatOf(lastOp, habit, date_str, completed)]
                  ELSE /\ habit_data' = L.habit_data
                       /\ file' = file
                       /\ lastOp' = [Op("checkin", habit, date_str, completed, "", "",
                                         Prior(info, date_str), "unchanged")
                                      EXCEPT !.repeat_of =
                                        RepeatOf(lastOp, habit, date_str, completed)]
      /\ UNCHANGED <<started, month, calendar_data>>

SaveCheckin ==
  LET L == load_data(file, habits, habit_data)
  IN  /\ started
      /\ L.habits # << >>
      /\ warning' = L.raised
      /\ habits' = L.habits
      /\ habit_data' = L.habit_data
      /\ IF LoopRaisesBefore(L.habits, L.habit_data, Len(L.habits))
         THEN /\ file' = file
              /\ lastOp' = Op("save", EmptyName, NoDate, FALSE, "", "", "none", "raised")
         ELSE /\ file' = save_data(habits', habit_data')
              /\ lastOp' = Op("save", EmptyName, NoDate, FALSE, "", "", "none", "saved")
      /\ UNCHANGED <<started, month, calendar_data, streak_log>>

CalendarView(selected_habit, first_weekday, num_days) ==
  LET L == load_data(file, habits, habit_data)
  IN  /\ started
      /\ InList(selected_habit, L.habits)
      /\ ~LoopRaisesBefore(L.habits, L.habit_data, Len(L.habits))
      /\ warning' = L.raised
      /\ habits' = L.habits
      /\ habit_data' = L.habit_data
      /\ month' = [first_weekday |-> first_weekday, num_days |-> num_days]
      /\ calendar_data' = CalendarGrid(selected_habit, L.habit_data, first_weekday, num_days)
      /\ lastOp' = Op("calendar", selected_habit, NoDate, FALSE, "", "", "none", "shown")
      /\ UNCHANGED <<file, started, streak_log>>

Run(names, dates) ==
  \/ Startup
  \/ \E n \in {EmptyName} \cup names, s \in Selections :
       AddHabit(n, s[1], s[2]) /\ UNCHANGED streak_log
  \/ \E n \in names : RemoveHabit(n)
  \/ \E n \in names, d \in dates, b \in BOOLEAN :
       CheckIn(n, d, b) /\ UNCHANGED streak_log
  \/ SaveCheckin

(* ---- several habits, checked in on one date ---- *)
Next == Run(Names, OneDate)

Spec == Init /\ [][Next]_vars

(* ---- one habit, checked in on several dates ---- *)
NextHabit == Run(OneName, Dates)

SpecHabit == Init /\ [][NextHabit]_vars

(* ---- the script started on a file left by an earlier process ---- *)
Garbage == [NoFile EXCEPT !.exists = TRUE]

SampleHabit(history, streak) ==
  [category |-> CategoryOptions[1], goal |-> GoalOptions[1], streak |-> streak,
   history |-> history]

SampleData == DictSet(EmptyDict, NamePool[1],
                      SampleHabit(DictSet(EmptyDict, DateStr(1), TRUE), 1))

OnlyHabits == [save_data(<<NamePool[1]>>, SampleData) EXCEPT
                 !.has_habit_data = FALSE, !.habit_data = {}]

OnlyHabitData == [save_data(<<NamePool[1]>>, SampleData) EXCEPT
                    !.has_habits = FALSE, !.habits = << >>]

InitialFiles == {NoFile, Garbage, OnlyHabits, OnlyHabitData,
                 save_data(<<NamePool[1]>>, SampleData)}

InitLoad == InitSession /\ file \in InitialFiles

SpecLoad == InitLoad /\ [][Next]_vars

(* ---- one habit and its check-ins in order, over MaxLog dates ---- *)
LogDates == {DateStr(i) : i \in 1..MaxLog}

LoggedAdd ==
  /\ AddHabit(NamePool[1], CategoryOptions[1], GoalOptions[1])
  /\ streak_log' = IF lastOp'.result = "added" THEN << >> ELSE streak_log

LoggedCheckIn ==
  \E d \in LogDates, b \in BOOLEAN :
    /\ Len(streak_log) < MaxLog
    /\ CheckIn(NamePool[1], d, b)
    /\ streak_log' = Append(streak_log,
                            [date |-> d, completed |-> b,
                             streak |-> habit_data'[NamePool[1]].streak])

NextStreak == Startup \/ LoggedAdd \/ LoggedCheckIn

SpecStreak == Init /\ [][NextStreak]_vars

(* ---- the calendar of one habit, over every history and month shape ---- *)
Histories == UNION {[S -> BOOLEAN] : S \in SUBSET Dates}

TrueCount(history) == Cardinality({d \in DOMAIN history : history[d]})

InitCal ==
  /\ \E history \in Histories :
       /\ habits = <<NamePool[1]>>
       /\ habit_data = DictSet(EmptyDict, NamePool[1],
                               SampleHabit(history, TrueCount(history)))
  /\ file = save_data(habits, habit_data)
  /\ started = TRUE
  /\ warning = FALSE
  /\ lastOp = NoOp
  /\ month = NoMonth
  /\ calendar_data = << >>
  /\ streak_log = << >>

NextCal ==
  \E n \in Names, w \in Weekdays, m \in MonthLengths : CalendarView(n, w, m)

SpecCal == InitCal /\ [][NextCal]_vars

(***************************************************************************)
(* Properties                                                              *)
(***************************************************************************)
IsCheckin(o) == o.op = "checkin" /\ o.result # "raised"

Known(n) == n \in DOMAIN habit_data

StreakBefore(i) == IF i = 1 THEN 0 ELSE streak_log[i - 1].streak

(* the date of the i-th check-in had no history entry: no earlier check-in
   of the log recorded it as true *)
FreshDate(i) ==
  \A j \in 1..(i - 1) :
    ~(streak_log[j].date = streak_log[i].date /\ streak_log[j].completed)

DistinctDates ==
  \A i, j \in 1..Len(streak_log) : streak_log[i].date = streak_log[j].date => i = j

LogPattern == [i \in 1..Len(streak_log) |-> streak_log[i].completed]

LogStreaks == [i \in 1..Len(streak_log) |-> streak_log[i].streak]

(* C1, as stated: a check-in on a date with no history entry adds 1 to the
   streak when completed is true and resets the streak to 0 when it is false;
   from streak 0, check-ins true, true, false, true on four distinct dates
   give the streaks 1, 2, 0, 1 *)
C1_FreshDateSetsStreak ==
  /\ \A i \in 1..Len(streak_log) :
       FreshDate(i) =>
         streak_log[i].streak =
           IF streak_log[i].completed THEN StreakBefore(i) + 1 ELSE 0
  /\ (DistinctDates /\ LogPattern = <<TRUE, TRUE, FALSE, TRUE>>)
       => LogStreaks = <<1, 2, 0, 1>>

(* C1, amended: a check-in on a date with no history entry adds 1 to the
   streak when completed is true and leaves the streak as it was when
   completed is false; from streak 0, check-ins true, true, false, true on
   four distinct dates give the streaks 1, 2, 2, 3 *)
C1_FreshDateStreakRule ==
  /\ \A i \in 1..Len(streak_log) :
       FreshDate(i) =>
         streak_log[i].streak =
           IF streak_log[i].completed THEN StreakBefore(i) + 1 ELSE StreakBefore(i)
  /\ (DistinctDates /\ LogPattern = <<TRUE, TRUE, FALSE, TRUE>>)
       => LogStreaks = <<1, 2, 2, 3>>

C1_Witness ==
  /\ DistinctDates
  /\ LogPattern = <<TRUE, TRUE, FALSE, TRUE>>
  /\ habit_data[NamePool[1]].streak = 3
  /\ Cardinality(DOMAIN habit_data[NamePool[1]].history) = 3

(* C2, as stated: after a check-in the history has the date as a key, with
   the value completed, whether or not the date had an entry before *)
C2_HistoryHasEntry ==
  IsCheckin(lastOp) =>
    /\ Known(lastOp.name)
    /\ lastOp.date \in DOMAIN habit_data[lastOp.name].history
    /\ habit_data[lastOp.name].history[lastOp.date] = lastOp.completed

(* C2, amended: after a check-in the status read for the date (false when the
   date has no entry) is completed; a date that had an entry, or a check-in
   with completed true, leaves an entry with the value completed; a check-in
   with completed false on a date without entry leaves the date without entry *)
C2_HistoryReadsCompleted ==
  IsCheckin(lastOp) =>
    /\ Known(lastOp.name)
    /\ LET history == habit_data[lastOp.name].history
       IN  /\ DictGet(history, lastOp.date, FALSE) = lastOp.completed
           /\ (lastOp.prior # "none" \/ lastOp.completed) =>
                (lastOp.date \in DOMAIN history /\ history[lastOp.date] = lastOp.completed)
           /\ (lastOp.prior = "none" /\ ~lastOp.completed) =>
                lastOp.date \notin DOMAIN history

C2_Witness ==
  /\ IsCheckin(lastOp)
  /\ lastOp.prior = "true"
  /\ ~lastOp.completed
  /\ lastOp.result = "updated"
  /\ habit_data[lastOp.name].history[lastOp.date] = FALSE

(* C3: the habit sequence and the habit mapping hold the same names, and no
   name is twice in the sequence *)
C3_SequenceAndMappingInSync ==
  /\ \A i \in 1..Len(habits) : habits[i] \in DOMAIN habit_data
  /\ \A n \in DOMAIN habit_data : \E i \in 1..Len(habits) : habits[i] = n
  /\ \A i, j \in 1..Len(habits) : habits[i] = habits[j] => i = j

C3_Witness ==
  /\ lastOp.op = "remove"
  /\ Len(habits) = 1
  /\ DOMAIN habit_data = {habits[1]}
  /\ lastOp.name # habits[1]

(* C4: a successful add puts the name last in the sequence, once, keeps the
   other names in their order, and maps it to a habit of the given category
   and goal with streak 0 and an empty history *)
C4_AddAppendsFreshHabit ==
  [][(lastOp'.op = "add" /\ lastOp'.result = "added")
     => /\ Truthy(lastOp'.name)
        /\ \A i \in 1..Len(habits) : habits[i] # lastOp'.name
        /\ Len(habits') = Len(habits) + 1
        /\ \A i \in 1..Len(habits) : habits'[i] = habits[i]
        /\ habits'[Len(habits')] = lastOp'.name
        /\ lastOp'.name \in DOMAIN habit_data'
        /\ habit_data'[lastOp'.name].streak = 0
        /\ DOMAIN habit_data'[lastOp'.name].history = {}
        /\ habit_data'[lastOp'.name].category = lastOp'.category
        /\ habit_data'[lastOp'.name].goal = lastOp'.goal]_vars

C4_Witness ==
  /\ lastOp.op = "add"
  /\ lastOp.result = "added"
  /\ Len(habits) = 2
  /\ habits[2] = lastOp.name
  /\ habit_data[habits[1]].streak >= 1
  /\ habit_data[habits[2]].streak = 0

(* C5: after an operation that changed the store, loading the file into a
   fresh store gives the habit sequence and the habit mapping of the session *)
Mutated(o) == o.result \in {"added", "removed", "updated", "saved"}

C5_SnapshotEqualsStore ==
  Mutated(lastOp) =>
    LET R == load_data(file, << >>, EmptyDict)
    IN  /\ file.exists
        /\ ~R.raised
        /\ R.habits = habits
        /\ R.habit_data = habit_data

C5_Witness ==
  /\ lastOp.result = "updated"
  /\ ~lastOp.completed
  /\ Len(habits) = 2
  /\ \A i \in 1..2 : habits[i] \in DOMAIN habit_data
  /\ \A n \in DOMAIN habit_data : DOMAIN habit_data[n].history # {}
  /\ \E n \in DOMAIN habit_data : habit_data[n].streak = 1

(* C6: a start on a missing file gives an empty store without warning; a
   start on a file that is present but not of the expected shape gives a
   warning and an empty store *)
Malformed(f) == f.exists /\ ~(f.parses /\ f.has_habits /\ f.has_habit_data)

C6_LoadFallsBackToEmpty ==
  lastOp.op = "startup" =>
    /\ ~file.exists => (~warning /\ habits = << >> /\ DOMAIN habit_data = {})
    /\ Malformed(file) => (warning /\ habits = << >> /\ DOMAIN habit_data = {})

(* C7: an add with an empty or blank name is refused and changes neither the
   sequence, nor the mapping, nor the file *)
C7_BlankNameRefused ==
  [][(lastOp'.op = "add" /\ IsBlank(lastOp'.name))
     => /\ lastOp'.result = "empty"
        /\ habits' = habits
        /\ habit_data' = habit_data
        /\ file' = file]_vars

FirstTrueCheckin(o) ==
  /\ IsCheckin(o)
  /\ o.completed
  /\ o.prior = "none"
  /\ o.result = "updated"

SameCheckin(o, p) ==
  /\ IsCheckin(p)
  /\ p.name = o.name
  /\ p.date = o.date
  /\ p.completed = o.completed

(* C8, as stated: from streak 0 and no entry for the date, two consecutive
   check-ins with completed true for the date leave streak 2 *)
C8_TwiceTrueCountsTwice ==
  [][(/\ FirstTrueCheckin(lastOp)
      /\ habit_data[lastOp.name].streak = 1
      /\ SameCheckin(lastOp, lastOp'))
     => habit_data'[lastOp.name].streak = 2]_vars

(* C8, amended: from streak 0 and no entry for the date, two consecutive
   check-ins with completed true for the date leave streak 1: the second
   finds the date recorded as true and changes nothing *)
C8_TwiceTrueCountsOnce ==
  [][(/\ FirstTrueCheckin(lastOp)
      /\ habit_data[lastOp.name].streak = 1
      /\ SameCheckin(lastOp, lastOp'))
     => /\ habit_data'[lastOp.name].streak = 1
        /\ lastOp'.result = "unchanged"
        /\ habit_data' = habit_data
        /\ file' = file]_vars

C8_Witness ==
  /\ IsCheckin(lastOp)
  /\ lastOp.completed
  /\ lastOp.repeat_of = "none"
  /\ habit_data[lastOp.name].streak = 1
  /\ habit_data[lastOp.name].history[lastOp.date]

(* C9: every week of the grid has 7 cells; the first first_weekday cells are
   empty; then come the days 1..num_days in order, each with the status the
   history has for its date (false without entry); the cells after the last
   day are empty and end the last week *)
Cell(grid, i) == grid[((i - 1) \div 7) + 1][((i - 1) % 7) + 1]

C9_CalendarGridShape ==
  lastOp.op = "calendar" =>
    LET w == month.first_weekday
        n == month.num_days
        history == habit_data[lastOp.name].history
        cells == 7 * Len(calendar_data)
    IN  /\ \A k \in 1..Len(calendar_data) : Len(calendar_data[k]) = 7
        /\ cells >= w + n
        /\ cells < w + n + 7
        /\ \A i \in 1..cells :
             Cell(calendar_data, i) =
               IF i <= w \/ i > w + n
               THEN [day |-> 0, completed |-> FALSE]
               ELSE [day |-> i - w,
                     completed |-> IF DayKeys[i - w] \in DOMAIN history
                                   THEN history[DayKeys[i - w]] ELSE FALSE]

C9_Witness ==
  /\ lastOp.op = "calendar"
  /\ month.first_weekday = 2
  /\ month.num_days = 31
  /\ Len(calendar_data) = 5
  /\ calendar_data[1][2].day = 0
  /\ calendar_data[1][3] = [day |-> 1, completed |-> TRUE]
  /\ calendar_data[1][4] = [day |-> 2, completed |-> FALSE]
  /\ calendar_data[5][5].day = 31
  /\ calendar_data[5][6].day = 0

(* C10: the streak of a habit is at least 0 and at most the number of dates
   its history records as true *)
C10_StreakWithinTrueDates ==
  \A n \in DOMAIN habit_data :
    /\ habit_data[n].streak >= 0
    /\ habit_data[n].streak <=
         Cardinality({d \in DOMAIN habit_data[n].history : habit_data[n].history[d]})

C10_Witness ==
  \E n \in DOMAIN habit_data :
    /\ habit_data[n].streak = 1
    /\ \E d \in DOMAIN habit_data[n].history : ~habit_data[n].history[d]
    /\ \E d \in DOMAIN habit_data[n].history : habit_data[n].history[d]

====
